---- MODULE Spec2Model ----
(***************************************************************************)
(* Lead-capture backend (src/app.py): two HTTP handlers (/api/contact and  *)
(* /api/openaccess) over a dual-sink lead store (SQLite table `leads` plus *)
(* the CSV log) and a fire-and-forget SMTP notifier.                       *)
(*                                                                         *)
(* Text is modelled run-length encoded: a string is a sequence of tokens   *)
(* [c, n], n >= 1 copies of the character c (or, for the fixed literals of *)
(* a format string, one chunk named c that is n characters long).  Lengths *)
(* such as 120, 121, 200 and 8000 are therefore exact.                     *)
(***************************************************************************)
EXTENDS Integers, Sequences, FiniteSets, TLC

\* ------------------------------------------------------------------ bounds
\* Worker processes (gunicorn workers), each importing the module.
NumWorkers == 2
\* Requests handled concurrently (request threads).
MaxRequests == 2
\* Values of the wall clock (datetime.utcnow(), second precision).
MaxTime == 1

\* ------------------------------------------------------- program constants
MaxNameLen == 120
MaxEmailLen == 200
MaxMessageLen == 8000

\* ------------------------------------------------------------------ text
Tok(c, n) == [c |-> c, n |-> n]
Rep(c, n) == IF n = 0 THEN << >> ELSE << Tok(c, n) >>

RECURSIVE StrLen(_)
StrLen(s) == IF s = << >> THEN 0 ELSE Head(s).n + StrLen(Tail(s))

RECURSIVE CharAt(_, _)
CharAt(s, i) == IF i <= Head(s).n THEN Head(s).c ELSE CharAt(Tail(s), i - Head(s).n)

\* Concatenation, keeping the encoding canonical (equal neighbours merge).
Cat(s, t) ==
    IF s = << >> THEN t
    ELSE IF t = << >> THEN s
    ELSE IF s[Len(s)].c = t[1].c
         THEN SubSeq(s, 1, Len(s) - 1) \o << Tok(t[1].c, s[Len(s)].n + t[1].n) >> \o Tail(t)
         ELSE s \o t

\* str.strip(): whitespace removed at both ends.
RECURSIVE LStrip(_)
LStrip(s) == IF s # << >> /\ Head(s).c = " " THEN LStrip(Tail(s)) ELSE s
RECURSIVE RStrip(_)
RStrip(s) == IF s # << >> /\ s[Len(s)].c = " " THEN RStrip(SubSeq(s, 1, Len(s) - 1)) ELSE s
Strip(s) == RStrip(LStrip(s))

\* str(n) of a non-negative integer: its decimal digits.
Digit(d) == IF d = 0 THEN "0" ELSE IF d = 1 THEN "1" ELSE IF d = 2 THEN "2"
            ELSE IF d = 3 THEN "3" ELSE IF d = 4 THEN "4" ELSE IF d = 5 THEN "5"
            ELSE IF d = 6 THEN "6" ELSE IF d = 7 THEN "7" ELSE IF d = 8 THEN "8" ELSE "9"
RECURSIVE IntToStr(_)
IntToStr(n) == IF n < 10 THEN << Tok(Digit(n), 1) >>
               ELSE Cat(IntToStr(n \div 10), << Tok(Digit(n % 10), 1) >>)

\* EMAIL_REGEX.match(email): ^[^@]+@[^@]+\.[^@]+$
EMAIL_REGEX(s) ==
    LET L == StrLen(s)
        ats == {i \in 1..L : CharAt(s, i) = "@"}
    IN  /\ Cardinality(ats) = 1
        /\ LET a == CHOOSE i \in ats : TRUE
           IN  /\ a > 1
               /\ \E d \in (a + 2)..(L - 1) : CharAt(s, d) = "."

\* ------------------------------------------------------------ JSON values
Absent == [t |-> "absent", s |-> << >>, n |-> 0]
JStr(s) == [t |-> "str", s |-> s, n |-> 0]
JNum(n) == [t |-> "num", s |-> << >>, n |-> n]
JBool(b) == [t |-> "bool", s |-> << >>, n |-> IF b THEN 1 ELSE 0]
JObj == [t |-> "obj", s |-> << >>, n |-> 1]

\* Python truthiness of a JSON value (bool(v), `v or ...`).
Truthy(v) ==
    CASE v.t = "absent" -> FALSE
      [] v.t = "str" -> v.s # << >>
      [] v.t = "num" -> v.n # 0
      [] v.t = "bool" -> v.n = 1
      [] OTHER -> TRUE

\* (data.get(k) or "").strip(): a truthy value that is no string has no
\* .strip and raises AttributeError.
GetStripped(v) ==
    IF ~Truthy(v) THEN [err |-> FALSE, s |-> << >>]
    ELSE IF v.t = "str" THEN [err |-> FALSE, s |-> Strip(v.s)]
    ELSE [err |-> TRUE, s |-> << >>]

\* str(data.get(k) or "").strip()
GetStrStripped(v) ==
    IF ~Truthy(v) THEN << >>
    ELSE IF v.t = "str" THEN Strip(v.s)
    ELSE IF v.t = "num" THEN IntToStr(v.n)
    ELSE IF v.t = "bool" THEN << Tok("True", 4) >>
    ELSE << Tok("{...}", 5) >>

\* ------------------------------------------------------------ submissions
\* A request body.  json = "object": a JSON object with the fields below;
\* "invalid": no JSON (get_json(silent=True) gives None); "array": a
\* non-empty JSON array.
Sub(json, name, email, message, phone, sl, mk, cb, bill) ==
    [json |-> json, name |-> name, email |-> email, message |-> message,
     phone |-> phone, sanctioned_load |-> sl, monthly_kwh |-> mk,
     callback |-> cb, eb_bill |-> bill]
ContactSub(name, email, message) ==
    Sub("object", name, email, message, Absent, Absent, Absent, Absent, Absent)
OpenSub(name, email, phone, sl, mk, cb, bill) ==
    Sub("object", name, email, Absent, phone, sl, mk, cb, bill)
NoFields(json) ==
    Sub(json, Absent, Absent, Absent, Absent, Absent, Absent, Absent, Absent)

A(n) == Rep("a", n)
\* "a@b.co"
GoodEmail == << Tok("a", 1), Tok("@", 1), Tok("b", 1), Tok(".", 1), Tok("c", 1), Tok("o", 1) >>
\* n letters, then "@b.co"
LongEmail(n) == Cat(A(n), Tail(GoodEmail))
\* "not-an-email"
NotAnEmail == << Tok("n", 1), Tok("o", 1), Tok("t", 1), Tok("-", 1), Tok("a", 1), Tok("n", 1),
                 Tok("-", 1), Tok("e", 1), Tok("m", 1), Tok("a", 1), Tok("i", 1), Tok("l", 1) >>

Names == {Absent, JStr(<< >>), JStr(Cat(Rep(" ", 1), Cat(A(1), Rep(" ", 2)))),
          JStr(A(MaxNameLen)), JStr(A(MaxNameLen + 1)), JNum(5)}
Emails == {Absent, JStr(NotAnEmail), JStr(GoodEmail),
           JStr(<< Tok("a", 1), Tok("@", 1), Tok("b", 1) >>),
           JStr(<< Tok("@", 1), Tok("b", 1), Tok(".", 1), Tok("c", 1) >>),
           JStr(<< Tok("a", 1), Tok("@", 1), Tok(".", 1), Tok("c", 1) >>),
           JStr(Cat(GoodEmail, Tail(GoodEmail))),
           JStr(LongEmail(MaxEmailLen - 5)), JStr(LongEmail(MaxEmailLen - 4))}
Messages == {Absent, JStr(Rep(" ", 3)), JStr(A(2)),
             JStr(A(MaxMessageLen)), JStr(A(MaxMessageLen + 1)), JBool(TRUE)}
Loads == {Absent, JStr(A(1)), JNum(0), JNum(1000)}
Flags == {Absent, JBool(TRUE)}
Bills == {Absent, JObj}

ContactSubs ==
    {ContactSub(n, e, m) : n \in Names, e \in Emails, m \in Messages}
        \cup {NoFields("invalid"), NoFields("array")}
OpenSubs ==
    {OpenSub(n, e, Absent, sl, mk, cb, b) :
        n \in Names, e \in {Absent, JStr(GoodEmail), JStr(NotAnEmail)},
        sl \in Loads, mk \in {Absent, JStr(A(1))}, cb \in Flags, b \in Bills}
        \cup {NoFields("array")}

\* The submissions of the concurrent specification.
ValidContact == ContactSub(JStr(A(1)), JStr(GoodEmail), JStr(A(2)))
ValidOpen == OpenSub(JStr(A(1)), JStr(GoodEmail), Absent, JNum(1000), JStr(A(1)), Absent, Absent)

\* ------------------------------------------------------------------ state
VARIABLES
    cfg,          \* mail environment: [sender, pass] (ZOHO_EMAIL, ZOHO_APP_PASSWORD set)
    tableExists,  \* the table `leads` exists in leads.db
    leads,        \* the committed rows of `leads`
    seq,          \* AUTOINCREMENT's sqlite_sequence: the largest id committed
    dbLock,       \* the request holding SQLite's write transaction, or 0
    csvExists,    \* leads.csv exists
    csv,          \* the rows of leads.csv, in file order
    errlog,       \* the tags app.logger.error has been called with
    pc,           \* position of every worker's import and of every request thread
    req           \* per request: its input, its locals and its response

vars == << cfg, tableExists, leads, seq, dbLock, csvExists, csv, errlog, pc, req >>

Workers == 1..NumWorkers
Requests == 1..MaxRequests
Times == 0..MaxTime
W(i) == << "w", i >>
R(j) == << "r", j >>
Exec == {W(i) : i \in Workers} \cup {R(j) : j \in Requests}

\* Python's None for lead_id, JSON null in a response.
None == -1

NoResp == [status |-> 0, ok |-> FALSE, id |-> None, created_at |-> None,
           email_queued |-> FALSE, error |-> ""]
ErrResp(status, error) == [NoResp EXCEPT !.status = status, !.error = error]
OkResp(id, created_at, queued) ==
    [status |-> 200, ok |-> TRUE, id |-> id, created_at |-> created_at,
     email_queued |-> queued, error |-> ""]

\* The header row csv.writer writes in _init_db.
HDR == [id |-> << Tok("id", 2) >>, topic |-> "topic", name |-> << Tok("name", 4) >>,
        email |-> << Tok("email", 5) >>, message |-> << Tok("message", 7) >>,
        created_at |-> None]

\* The row _save_lead inserts, and the row it appends to the log:
\* csv.writer writes str(lead_id), or "" when lead_id is None.
DbRow(id, topic, name, email, message, now) ==
    [id |-> id, topic |-> topic, name |-> name, email |-> email,
     message |-> message, created_at |-> now]
IdCell(lead_id) == IF lead_id = None \/ lead_id = 0 THEN << >> ELSE IntToStr(lead_id)
CsvRowColumnsSwapped(lead_id, topic, name, email, message, now) ==
    [id |-> IdCell(lead_id), topic |-> topic, name |-> email, email |-> name,
     message |-> message, created_at |-> now]
CsvRow(lead_id, topic, name, email, message, now) ==
    [id |-> IdCell(lead_id), topic |-> topic, name |-> name, email |-> email,
     message |-> message, created_at |-> now]

IdleReq == [worker |-> 0, conc |-> {}, ep |-> "", sub |-> NoFields("invalid"), topic |-> "",
            name |-> << >>, email |-> << >>, message |-> << >>, attachments |-> 0,
            now |-> None, lead_id |-> None, committed |-> FALSE, appended |-> FALSE,
            notif |-> "none", resp |-> NoResp]

\* Every worker is about to import the module; nothing exists under DATA_DIR.
InitWith(cfgs) ==
    /\ cfg \in cfgs
    /\ tableExists = FALSE
    /\ leads = {}
    /\ seq = 0
    /\ dbLock = 0
    /\ csvExists = FALSE
    /\ csv = << >>
    /\ errlog = {}
    /\ pc = [e \in Exec |-> IF e[1] = "w" THEN "init_db" ELSE "idle"]
    /\ req = [j \in Requests |-> IdleReq]

Configs == [sender : BOOLEAN, pass : BOOLEAN]
Init == InitWith(Configs)

\* ------------------------------------------------------------- validation
Reject(status, error) ==
    [kind |-> "reject", status |-> status, error |-> error, topic |-> "",
     name |-> << >>, email |-> << >>, message |-> << >>, attachments |-> 0]
Accept(topic, name, email, message, attachments) ==
    [kind |-> "save", status |-> 200, error |-> "", topic |-> topic,
     name |-> name, email |-> email, message |-> message, attachments |-> attachments]

\* Line 150: the length limits of /api/contact.
TooLongOffByOne(name, email, message) ==
    \/ StrLen(name) >= MaxNameLen
    \/ StrLen(email) >= MaxEmailLen
    \/ StrLen(message) >= MaxMessageLen
TooLong(name, email, message) ==
    \/ StrLen(name) > MaxNameLen
    \/ StrLen(email) > MaxEmailLen
    \/ StrLen(message) > MaxMessageLen

\* contact(), lines 143-151: parse, trim, validate.
ContactCheck(sub) ==
    IF sub.json = "array" THEN Reject(500, "server_error")
    ELSE LET name == GetStripped(sub.name)
             email == GetStripped(sub.email)
             message == GetStripped(sub.message)
         IN  IF name.err \/ email.err \/ message.err THEN Reject(500, "server_error")
             ELSE IF name.s = << >> \/ ~EMAIL_REGEX(email.s) \/ message.s = << >>
                  THEN Reject(400, "Invalid input")
             ELSE IF TooLong(name.s, email.s, message.s)
                  THEN Reject(413, "Input too long")
             ELSE Accept("contact", name.s, email.s, message.s, 0)

\* The message openaccess() assembles, lines 195-197.
OpenMessage(phone, sanctioned, monthly, callback) ==
    Cat(<< Tok("[Open Access Inquiry]\nPhone: ", 29) >>,
    Cat(phone,
    Cat(<< Tok("\nSanctioned Load (kVA): ", 24) >>,
    Cat(sanctioned,
    Cat(<< Tok("\nMonthly (kWh): ", 16) >>,
    Cat(monthly,
    Cat(<< Tok("\nCallback: ", 11) >>,
        IF callback THEN << Tok("Yes", 3) >> ELSE << Tok("No", 2) >>)))))))

\* openaccess(), lines 183-198 and 204.
OpenCheck(sub) ==
    IF sub.json = "array" THEN Reject(500, "server_error")
    ELSE LET name == GetStripped(sub.name)
             email == GetStripped(sub.email)
             phone == GetStripped(sub.phone)
             sanctioned == GetStrStripped(sub.sanctioned_load)
             monthly == GetStrStripped(sub.monthly_kwh)
             callback == Truthy(sub.callback)
         IN  IF name.err \/ email.err \/ phone.err THEN Reject(500, "server_error")
             ELSE IF \/ name.s = << >> \/ ~EMAIL_REGEX(email.s)
                     \/ sanctioned = << >> \/ monthly = << >>
                  THEN Reject(400, "Invalid input")
             ELSE Accept("openaccess", name.s, email.s,
                         OpenMessage(phone.s, sanctioned, monthly, callback),
                         IF sub.eb_bill.t = "obj" THEN 1 ELSE 0)

Check(ep, sub) == IF ep = "contact" THEN ContactCheck(sub) ELSE OpenCheck(sub)

\* ---------------------------------------------------------------- _init_db
\* _init_db runs at import in every worker (_maybe_init) and at the start of
\* every handler call.  Where it returns to:
AfterInit(e) == IF e[1] = "w" THEN "up" ELSE "validate"

\* Lines 38-50: CREATE TABLE IF NOT EXISTS and commit; an exception leaves
\* _init_db through the except clause, skipping the CSV part.
InitCreateTable(e) ==
    /\ pc[e] = "init_db"
    /\ \/ /\ tableExists' = TRUE
          /\ pc' = [pc EXCEPT ![e] = "csv_check"]
          /\ UNCHANGED errlog
       \/ /\ pc' = [pc EXCEPT ![e] = AfterInit(e)]
          /\ errlog' = errlog \cup {"DB init"}
          /\ UNCHANGED tableExists
    /\ UNCHANGED << cfg, leads, seq, dbLock, csvExists, csv, req >>

\* Line 51: os.path.exists(CSV_PATH).
InitCsvCheck(e) ==
    /\ pc[e] = "csv_check"
    /\ pc' = [pc EXCEPT ![e] = IF csvExists THEN AfterInit(e) ELSE "csv_open_w"]
    /\ UNCHANGED << cfg, errlog, tableExists, leads, seq, dbLock, csvExists, csv, req >>

\* Line 52: open(CSV_PATH, "w") creates the file or truncates it; a failing
\* open raises into the except clause.
InitCsvOpen(e) ==
    /\ pc[e] = "csv_open_w"
    /\ \/ /\ csvExists' = TRUE
          /\ csv' = << >>
          /\ pc' = [pc EXCEPT ![e] = "csv_header"]
          /\ UNCHANGED errlog
       \/ /\ pc' = [pc EXCEPT ![e] = AfterInit(e)]
          /\ errlog' = errlog \cup {"DB init"}
          /\ UNCHANGED << csvExists, csv >>
    /\ UNCHANGED << cfg, tableExists, leads, seq, dbLock, req >>

\* Line 53: the header is written through the "w" handle, at offset 0,
\* whatever another handle has appended since the open.
HeaderWritten(file) == IF file = << >> THEN << HDR >> ELSE [file EXCEPT ![1] = HDR]

InitCsvHeader(e) ==
    /\ pc[e] = "csv_header"
    /\ csv' = HeaderWritten(csv)
    /\ pc' = [pc EXCEPT ![e] = AfterInit(e)]
    /\ UNCHANGED << cfg, errlog, tableExists, leads, seq, dbLock, csvExists, req >>

\* ---------------------------------------------------------------- handlers
\* A request arrives at a worker that has finished importing; the handler's
\* first statement is _init_db() (lines 141, 181).
\* The requests being handled right now.
InFlight == {k \in Requests : pc[R(k)] \notin {"idle", "done"}}

Receive(j, ep, subs) ==
    /\ pc[R(j)] = "idle"
    /\ j > 1 => pc[R(j - 1)] # "idle"
    /\ \E w \in Workers, sub \in subs :
          /\ pc[W(w)] = "up"
          /\ req' = [req EXCEPT ![j] = [@ EXCEPT !.worker = w, !.ep = ep, !.sub = sub,
                                                 !.conc = InFlight]]
    /\ pc' = [pc EXCEPT ![R(j)] = "init_db"]
    /\ UNCHANGED << cfg, errlog, tableExists, leads, seq, dbLock, csvExists, csv >>

\* Lines 143-151 / 183-197, and _save_lead's line 58-59 for an accepted
\* input: now = utcnow(), lead_id = None.
\* Timestamps are only copied and compared for equality, so the readings of
\* the clock are named in order of first appearance: a reading equals an
\* earlier one or is the next unused value.
Readings ==
    LET used == {req[k].now : k \in Requests} \ {None}
    IN  {t \in Times : t <= Cardinality(used)}

Validate(j) ==
    /\ pc[R(j)] = "validate"
    /\ LET c == Check(req[j].ep, req[j].sub)
       IN  IF c.kind = "reject"
           THEN /\ req' = [req EXCEPT ![j].resp = ErrResp(c.status, c.error)]
                /\ pc' = [pc EXCEPT ![R(j)] = "done"]
                /\ errlog' = IF c.status = 500 THEN errlog \cup {req[j].ep} ELSE errlog
           ELSE /\ \E now \in Readings :
                     req' = [req EXCEPT ![j] = [@ EXCEPT !.topic = c.topic, !.name = c.name,
                                 !.email = c.email, !.message = c.message,
                                 !.attachments = c.attachments, !.now = now]]
                /\ pc' = [pc EXCEPT ![R(j)] = "insert"]
                /\ UNCHANGED errlog
    /\ UNCHANGED << cfg, tableExists, leads, seq, dbLock, csvExists, csv >>

\* ---------------------------------------------------------------- _save_lead
\* AUTOINCREMENT: the rowid the INSERT gets.
NextRowId == seq + 1

\* Lines 63-65: the INSERT opens the write transaction and lastrowid is read
\* into lead_id.  It raises when the table is missing, the database stays
\* locked by another writer past the busy timeout, or the I/O fails.
InsertExecute(j) ==
    /\ pc[R(j)] = "insert"
    /\ \/ /\ tableExists
          /\ dbLock = 0
          /\ dbLock' = j
          /\ req' = [req EXCEPT ![j].lead_id = NextRowId]
          /\ pc' = [pc EXCEPT ![R(j)] = "commit"]
          /\ UNCHANGED errlog
       \/ /\ pc' = [pc EXCEPT ![R(j)] = "csv_open_a"]
          /\ errlog' = errlog \cup {"DB insert"}
          /\ UNCHANGED << dbLock, req >>
    /\ UNCHANGED << cfg, tableExists, leads, seq, csvExists, csv >>

\* Line 66: con.commit().  When it raises, the connection's context manager
\* rolls the INSERT back; lead_id keeps the value line 65 gave it.
InsertCommit(j) ==
    /\ pc[R(j)] = "commit"
    /\ dbLock' = 0
    /\ \/ /\ leads' = leads \cup {DbRow(req[j].lead_id, req[j].topic, req[j].name,
                                        req[j].email, req[j].message, req[j].now)}
          /\ seq' = req[j].lead_id
          /\ req' = [req EXCEPT ![j].committed = TRUE]
          /\ UNCHANGED errlog
       \/ /\ errlog' = errlog \cup {"DB insert"}
          /\ UNCHANGED << leads, seq, req >>
    /\ pc' = [pc EXCEPT ![R(j)] = "csv_open_a"]
    /\ UNCHANGED << cfg, tableExists, csvExists, csv >>

\* Line 70: open(CSV_PATH, "a") creates the file when it is missing; a
\* failing open (or write) raises into the except clause of line 72.
CsvOpenAppend(j) ==
    /\ pc[R(j)] = "csv_open_a"
    /\ \/ /\ csvExists' = TRUE
          /\ pc' = [pc EXCEPT ![R(j)] = "csv_write"]
          /\ UNCHANGED errlog
       \/ /\ pc' = [pc EXCEPT ![R(j)] = "dispatch"]
          /\ errlog' = errlog \cup {"CSV append"}
          /\ UNCHANGED csvExists
    /\ UNCHANGED << cfg, tableExists, leads, seq, dbLock, csv, req >>

\* Line 71: the row goes to the end of the file (append mode).
CsvWriteRow(j) ==
    /\ pc[R(j)] = "csv_write"
    /\ csv' = Append(csv, CsvRow(req[j].lead_id, req[j].topic, req[j].name,
                                 req[j].email, req[j].message, req[j].now))
    /\ req' = [req EXCEPT ![j].appended = TRUE]
    /\ pc' = [pc EXCEPT ![R(j)] = "dispatch"]
    /\ UNCHANGED << cfg, errlog, tableExists, leads, seq, dbLock, csvExists >>

\* ---------------------------------------------------------------- notifier
\* _send_email_background, line 121: a daemon thread is started.
Dispatch(j) ==
    /\ pc[R(j)] = "dispatch"
    /\ req' = [req EXCEPT ![j].notif = "started"]
    /\ pc' = [pc EXCEPT ![R(j)] = "respond"]
    /\ UNCHANGED << cfg, errlog, tableExists, leads, seq, dbLock, csvExists, csv >>

\* _send_email_sync, lines 85-87: nothing is sent without sender or password.
ConfigMissing == ~cfg.sender \/ ~cfg.pass

\* _send_email_sync in its thread: skipped, sent, or failed (lines 110-118).
\* The thread may also never get this far.
NotifyRun(j) ==
    /\ req[j].notif = "started"
    /\ \E out \in (IF ConfigMissing THEN {"skipped"} ELSE {"sent", "failed"}) :
          /\ req' = [req EXCEPT ![j].notif = out]
          /\ errlog' = IF out = "failed" THEN errlog \cup {"SMTP send"} ELSE errlog
    /\ UNCHANGED << cfg, tableExists, leads, seq, dbLock, csvExists, csv, pc >>

\* Lines 158 / 207: the success response.
SuccessResponseFromConfig(lead_id, created_at) == OkResp(lead_id, created_at, ~ConfigMissing)
SuccessResponse(lead_id, created_at) == OkResp(lead_id, created_at, TRUE)

Respond(j) ==
    /\ pc[R(j)] = "respond"
    /\ req' = [req EXCEPT ![j].resp = SuccessResponse(req[j].lead_id, req[j].now)]
    /\ pc' = [pc EXCEPT ![R(j)] = "done"]
    /\ UNCHANGED << cfg, errlog, tableExists, leads, seq, dbLock, csvExists, csv >>

\* ------------------------------------------------------------ specifications
ConcContact == {ValidContact}
ConcOpen == {ValidOpen}

InitDb(e) == InitCreateTable(e) \/ InitCsvCheck(e) \/ InitCsvOpen(e) \/ InitCsvHeader(e)
Handle(j) ==
    \/ Validate(j) \/ InsertExecute(j) \/ InsertCommit(j) \/ CsvOpenAppend(j)
    \/ CsvWriteRow(j) \/ Dispatch(j) \/ NotifyRun(j) \/ Respond(j)

\* Workers and request threads interleave freely.
Next ==
    \/ \E e \in Exec : InitDb(e)
    \/ \E j \in Requests : Receive(j, "contact", ConcContact)
    \/ \E j \in Requests : Receive(j, "openaccess", ConcOpen)
    \/ \E j \in Requests : Handle(j)

\* The concurrent specification runs with the mail relay configured; the
\* notifier's configuration cases are explored by SpecOne.
InitConc == InitWith({[sender |-> TRUE, pass |-> TRUE]})
Spec == InitConc /\ [][Next]_vars

\* One worker process and its request threads, on /api/contact, with no
\* mail relay configured.
InitProc == InitWith({[sender |-> FALSE, pass |-> FALSE]})
ProcExec == {W(1)} \cup {R(j) : j \in Requests}
NextProc ==
    \/ \E e \in ProcExec : InitDb(e)
    \/ \E j \in Requests : Receive(j, "contact", ConcContact)
    \/ \E j \in Requests : Handle(j)

SpecProc == InitProc /\ [][NextProc]_vars

\* One worker handling one request, over every enumerated submission and
\* every mail configuration.
OneExec == {W(1), R(1)}
NextOne ==
    \/ \E e \in OneExec : InitDb(e)
    \/ Receive(1, "contact", ContactSubs)
    \/ Receive(1, "openaccess", OpenSubs)
    \/ Handle(1)

SpecOne == Init /\ [][NextOne]_vars

\* ------------------------------------------------------------------ claims
Done(j) == pc[R(j)] = "done"
Ok(j) == Done(j) /\ req[j].resp.ok

\* A raw field as the claims read it.
Trimmed(v) == IF v.t = "str" THEN Strip(v.s) ELSE << >>
Missing(v) == v.t \in {"absent", "str"} /\ Trimmed(v) = << >>
TextOrFalsy(v) == v.t = "str" \/ ~Truthy(v)

\* The input passes every check other than the length limits.
Basic(ep, sub) ==
    /\ sub.json # "array"
    /\ TextOrFalsy(sub.name) /\ Trimmed(sub.name) # << >>
    /\ TextOrFalsy(sub.email) /\ EMAIL_REGEX(Trimmed(sub.email))
    /\ IF ep = "contact"
       THEN TextOrFalsy(sub.message) /\ Trimmed(sub.message) # << >>
       ELSE /\ TextOrFalsy(sub.phone)
            /\ GetStrStripped(sub.sanctioned_load) # << >>
            /\ GetStrStripped(sub.monthly_kwh) # << >>
Oversized(sub) ==
    \/ StrLen(Trimmed(sub.name)) > MaxNameLen
    \/ StrLen(Trimmed(sub.email)) > MaxEmailLen
    \/ StrLen(Trimmed(sub.message)) > MaxMessageLen
Valid(ep, sub) == Basic(ep, sub) /\ (ep = "contact" => ~Oversized(sub))

\* Request j wrote nothing and started no notification.
NothingStoredBy(j) ==
    ~req[j].committed /\ ~req[j].appended /\ req[j].notif = "none"
LeadRows == {i \in 1..Len(csv) : csv[i] # HDR}

StorageErrors == {"DB init", "DB insert", "CSV append"}
\* Only worker 1 has been started.
SingleProcess == \A w \in Workers \ {1} : pc[W(w)] = "init_db"
AllAnswered == \A j \in Requests : pc[R(j)] \in {"idle", "done"}

\* C1: two valid submissions handled concurrently never get the same id in
\* their success responses, whatever the outcome of the inserts.  Stated for
\* the ids that are integers, in runs whose only logged error is the insert's.
C1_ConcurrentIdsDiffer ==
    \A j, k \in Requests :
        (/\ k \in req[j].conc /\ Ok(j) /\ Ok(k)
         /\ errlog \subseteq {"DB insert"}
         /\ req[j].resp.id # None)
        => req[j].resp.id # req[k].resp.id

\* Every row of `leads` has a row in the log with the same id, topic, name,
\* email and created_at.
RoundTrip ==
    \A row \in leads : \E i \in 1..Len(csv) :
        /\ csv[i].id = IntToStr(row.id)
        /\ csv[i].topic = row.topic
        /\ csv[i].name = row.name
        /\ csv[i].email = row.email
        /\ csv[i].created_at = row.created_at

C3_ContactIdFreshAndStored ==
    \A j \in Requests :
        (/\ Done(j) /\ req[j].ep = "contact" /\ Valid("contact", req[j].sub)
         /\ errlog \subseteq {"DB insert"}
         /\ req[j].resp.id # None) =>
            /\ req[j].resp.ok
            /\ req[j].resp.id > 0
            /\ \A k \in Requests \ {j} : Ok(k) => req[k].resp.id # req[j].resp.id
            /\ DbRow(req[j].resp.id, "contact", Trimmed(req[j].sub.name),
                     Trimmed(req[j].sub.email), Trimmed(req[j].sub.message),
                     req[j].resp.created_at) \in leads

\* C4 (as claimed): without sender address or credential a valid submission
\* is answered ok=true with email_queued=false.  Stated for the runs in
\* which nothing has failed.
C4_NotQueuedWithoutConfig ==
    \A j \in Requests :
        (Done(j) /\ Valid(req[j].ep, req[j].sub) /\ ConfigMissing /\ errlog = {}) =>
            (req[j].resp.ok /\ req[j].resp.email_queued = FALSE)

\* C4 (amended): a valid submission is answered 200, ok=true and
\* email_queued=true in every mail configuration and whatever the
\* notification thread has done (nothing yet, skipped, sent, failed).
C4_AlwaysQueuedNeverError ==
    \A j \in Requests :
        (Done(j) /\ Valid(req[j].ep, req[j].sub)) =>
            /\ req[j].resp.status = 200
            /\ req[j].resp.ok
            /\ req[j].resp.email_queued = TRUE
            /\ req[j].notif \in {"started", "skipped", "sent", "failed"}

\* C4 witness: a valid submission answered while the credential is missing,
\* its notification skipped.
C4_Witness ==
    \E j \in Requests :
        /\ Done(j) /\ Valid(req[j].ep, req[j].sub)
        /\ cfg.sender /\ ~cfg.pass
        /\ req[j].notif = "skipped"
        /\ req[j].resp.ok

\* The log has its header as first row and nowhere else.
HeaderOk ==
    /\ csvExists /\ csv # << >> /\ csv[1] = HDR
    /\ \A i \in 2..Len(csv) : csv[i] # HDR
InInit(e) == pc[e] \in {"csv_check", "csv_open_w", "csv_header"}
InitCompleted == \E e \in Exec : pc[e] \notin {"idle", "init_db"} /\ ~InInit(e)
\* Every lead row of the log is still in the log after the step.
RowsKept == \A i \in LeadRows : \E k \in 1..Len(csv') : csv'[k] = csv[i]

\* C5: as long as no call has logged an error, _init_db calls interleaved
\* with each other and with _save_lead leave the table in place, the log with
\* exactly one header as its first row once no call is running, and never
\* remove or overwrite a lead row of the log.
C5_InitIdempotentAndSafe ==
    [][errlog' = {} =>
         /\ RowsKept
         /\ (InitCompleted' /\ \A e \in Exec : ~InInit(e)') => (tableExists' /\ HeaderOk')
      ]_vars

\* C6: two request threads of one worker process are never both between
\* opening the log for append and finishing their row.  Stated for the runs
\* in which nothing has failed.
C6_AppendMutualExclusion ==
    \A j, k \in Requests :
        (/\ j # k /\ req[j].worker = req[k].worker /\ pc[R(j)] = "csv_write"
         /\ errlog = {})
        => pc[R(k)] # "csv_write"

\* C7: a contact submission (a JSON object) whose name, email or message is
\* missing or empty after trimming, or whose email does not match the
\* pattern, is answered 400 with ok=false and leaves no row, no log row and
\* no notification.
C7_InvalidContactIs400 ==
    \A j \in Requests :
        (/\ Done(j) /\ req[j].ep = "contact" /\ req[j].sub.json = "object"
         /\ \/ Missing(req[j].sub.name) \/ Missing(req[j].sub.email)
            \/ Missing(req[j].sub.message)
            \/ (req[j].sub.email.t = "str" /\ ~EMAIL_REGEX(Trimmed(req[j].sub.email))))
        => /\ req[j].resp.status = 400 /\ ~req[j].resp.ok
           /\ NothingStoredBy(j)

\* C8 (as claimed): on both endpoints an oversized, otherwise valid input is
\* rejected with 413 and stores nothing, an input within the limits is
\* accepted, 413 is only for oversized and 400 only for other invalid input.
\* Stated for the runs in which nothing has failed.
C8_LimitsOnBothEndpoints ==
    \A j \in Requests : (Done(j) /\ errlog = {}) =>
        LET ep == req[j].ep
            sub == req[j].sub
            st == req[j].resp.status
        IN  /\ (Basic(ep, sub) /\ Oversized(sub)) => (st = 413 /\ NothingStoredBy(j))
            /\ (Basic(ep, sub) /\ ~Oversized(sub)) => st = 200
            /\ st = 413 => Oversized(sub)
            /\ st = 400 => ~Basic(ep, sub)

\* C8 (amended): /api/contact rejects an oversized, otherwise valid input
\* with 413 and stores nothing, and accepts one within the limits (a name
\* of exactly 120 characters); /api/openaccess applies no length limit and
\* never answers 413; 413 is only for oversized and 400 only for other
\* invalid input.
C8_LimitsOnContactOnly ==
    \A j \in Requests : Done(j) =>
        LET ep == req[j].ep
            sub == req[j].sub
            st == req[j].resp.status
        IN  /\ (ep = "contact" /\ Basic(ep, sub) /\ Oversized(sub))
                => (st = 413 /\ NothingStoredBy(j) /\ leads = {} /\ LeadRows = {})
            /\ (ep = "contact" /\ Basic(ep, sub) /\ ~Oversized(sub)) => st = 200
            /\ (ep = "openaccess" /\ Basic(ep, sub)) => st = 200
            /\ st = 413 => (ep = "contact" /\ Oversized(sub))
            /\ st = 400 => ~Basic(ep, sub)

\* C8 witness: a contact input with a name of 121 characters, otherwise
\* valid, has been answered 413.
C8_Witness ==
    /\ Done(1) /\ req[1].ep = "contact" /\ Basic("contact", req[1].sub)
    /\ StrLen(Trimmed(req[1].sub.name)) = MaxNameLen + 1
    /\ StrLen(Trimmed(req[1].sub.email)) <= MaxEmailLen
    /\ StrLen(Trimmed(req[1].sub.message)) <= MaxMessageLen
    /\ req[1].resp.status = 413

\* C9: a notification is dispatched only after the lead has been written (to
\* at least one sink, the weakest reading of "the durable write succeeded"),
\* and a success response is emitted only after the dispatch.  Stated for
\* the runs in which _init_db has not failed.
C9_DispatchAfterDurableWrite ==
    \A j \in Requests :
        "DB init" \notin errlog =>
            /\ req[j].notif # "none" => (req[j].committed \/ req[j].appended)
            /\ Ok(j) => req[j].notif # "none"

\* C10: when the insert has failed the row appended to the log has an empty
\* id; when the append fails after a successful insert the row stays in the
\* table and its id is returned; the request is answered either way.
\* Stated for the runs in which _init_db has not failed.
C10_SaveLeadFailurePolicy ==
    \A j \in Requests : "DB init" \notin errlog =>
        /\ (req[j].appended /\ ~req[j].committed) => IdCell(req[j].lead_id) = << >>
        /\ (Done(j) /\ req[j].committed) =>
               /\ req[j].resp.ok /\ req[j].resp.id = req[j].lead_id
               /\ \E row \in leads : row.id = req[j].lead_id
        /\ (Done(j) /\ Valid(req[j].ep, req[j].sub)) => req[j].resp.status = 200
====
